---- MODULE Spec2Model ----
(***************************************************************************)
(* Control-plane engine of the winit X11 test module: the dispatch loop    *)
(* handle_message (main.c), the device registry and the input driver       *)
(* callbacks pre_init / un_init (input.c), and the exported input_*        *)
(* entry points.  Wire data is modelled in 32-bit words: every field of    *)
(* every message is a uint32_t.                                            *)
(***************************************************************************)
EXTENDS Integers, Sequences, FiniteSets, TLC

\* ------------------------------------------------------------------ bounds
\* Number of device slots of the host (ids 1..MaxDevices, as many InputInfo
\* structures and as many heap cells for Device records).
MaxDevices == 3
\* Cap of the name counter next_input_id (creations are refused by the guard
\* of the create entry points once the counter passed it).
MaxCreates == 3
\* Capacity, in words, of the socket's receive queue.
MaxBuf == 4

\* --------------------------------------------------------- program constants
\* enum MessageType
MT_NONE == 0
MT_CREATE_KEYBOARD == 1
MT_CREATE_KEYBOARD_REPLY == 2
MT_KEY_PRESS == 3
MT_KEY_RELEASE == 4
MT_REMOVE_DEVICE == 5
MT_ENABLE_SECOND_MONITOR == 6
MT_ENABLE_SECOND_MONITOR_REPLY == 7
MT_GET_VIDEO_INFO == 8
MT_GET_VIDEO_INFO_REPLY == 9
\* Request and reply tags of the wire protocol table that enum MessageType
\* does not define and the switch of handle_message has no case for.
MT_CREATE_MOUSE == 10
MT_CREATE_MOUSE_REPLY == 11
MT_BUTTON_PRESS == 12
MT_BUTTON_RELEASE == 13
MT_MOUSE_MOVE == 14
MT_MOUSE_SCROLL == 15
\* A tag no table defines.
MT_UNDEFINED == MT_MOUSE_SCROLL + 1

\* enum Type
TyKeyboard == 1
TyMouse == 2

MIN_KEYCODE == 8
\* sizeof(Message) in words: the largest member of the union has three.
MessageWords == 3
\* Axes of the valuator mask made by valuator_mask_new(4).
NumAxes == 4

NULL == 0
\* What get_device evaluates to when the scan dereferences a NULL dev.
FAULT == 0 - 1

Min(a, b) == IF a < b THEN a ELSE b

Addr == 1..MaxDevices
Info == 1..MaxDevices
Ids  == 1..MaxDevices
Axes == 0..(NumAxes - 1)

VARIABLES
  pc,             \* "idle", "request", "preinited" or "dead"
  heap,           \* Device records by address
  devices,        \* static Device *devices
  current_type,   \* static Type current_type
  next_input_id,  \* static int next_input_id of input_new
  pinfo,          \* the host's InputInfoRec structures
  memerr,         \* memory errors observed so far
  options,        \* the name option of the NewInputDeviceRequest in progress
  inbuf,          \* words queued on the socket, peer to core
  second_monitor, \* state of the display collaborator
  last            \* the operation in progress or last completed

vars == <<pc, heap, devices, current_type, next_input_id, pinfo, memerr,
          options, inbuf, second_monitor, last>>

\* ------------------------------------------------------------ valuator mask
\* A mask: the axes that are set (bits), their values (vals), whether
\* unaccelerated values were given and those values (unaccel).
ZeroVals == [a \in Axes |-> 0]
NoMask == [alloc |-> FALSE, bits |-> {}, vals |-> ZeroVals,
           has_unaccelerated |-> FALSE, unaccel |-> ZeroVals]

valuator_mask_new == [NoMask EXCEPT !.alloc = TRUE]

valuator_mask_zero(m) ==
  [m EXCEPT !.bits = {}, !.vals = ZeroVals, !.has_unaccelerated = FALSE,
            !.unaccel = ZeroVals]

valuator_mask_set(m, axis, v) ==
  [m EXCEPT !.bits = @ \cup {axis}, !.vals[axis] = v]

valuator_mask_set_unaccelerated(m, axis, v, u) ==
  [m EXCEPT !.bits = @ \cup {axis}, !.vals[axis] = v,
            !.has_unaccelerated = TRUE, !.unaccel[axis] = u]

\* ------------------------------------------------------------------ records
FreeCell == [used |-> FALSE, next |-> NULL, prev_next |-> NULL, type |-> 0,
             device |-> NULL, mask |-> NoMask]

\* A device name: the prefix and the number input_new prints after it.
NoName == [prefix |-> "", n |-> 0]

FreeInfo == [used |-> FALSE, private |-> NULL, dev |-> NULL, name |-> NoName]

\* A link is &devices (0) or &heap[a].next (a).
Deref(h, d, link) == IF link = 0 THEN d ELSE h[link].next

Store(h, d, link, v) ==
  IF link = 0 THEN [heap |-> h, devices |-> v]
  ELSE [heap |-> [h EXCEPT ![link].next = v], devices |-> d]

\* The records met by following next from address a, at most fuel of them.
RECURSIVE Walk(_, _, _)
Walk(h, a, fuel) ==
  IF a = NULL \/ fuel = 0 THEN <<>>
  ELSE <<a>> \o Walk(h, h[a].next, fuel - 1)

Registry(h, d) == Walk(h, d, MaxDevices + 1)

\* ------------------------------------------------------------- input driver
\* calloc: the lowest free cell, NULL when the heap is exhausted.
calloc(h) ==
  IF \E a \in Addr : ~h[a].used
  THEN CHOOSE a \in Addr : ~h[a].used /\ \A b \in Addr : b < a => h[b].used
  ELSE NULL

\* free(device): the cell is released; releasing a cell that is not
\* allocated, or one that still owns a mask, is recorded.
free(h, a) ==
  [heap |-> [h EXCEPT ![a] = FreeCell],
   err  |-> (IF h[a].used THEN {} ELSE {"double_free"})
            \cup (IF h[a].mask.alloc THEN {"mask_leak"} ELSE {})]

\* The loop of pre_init: the link that holds NULL, found from link.
RECURSIVE TailLink(_, _, _, _)
TailLink(h, d, link, fuel) ==
  IF Deref(h, d, link) = NULL \/ fuel = 0 THEN link
  ELSE TailLink(h, d, Deref(h, d, link), fuel - 1)

\* pre_init(drv, pInfo, flags), with ct the value of current_type.
pre_init(h, d, pi, ct, p) ==
  LET device == calloc(h)
  IN IF device = NULL
     THEN [heap |-> h, devices |-> d, pinfo |-> pi, ok |-> FALSE,
           err |-> {"null_deref"}]
     ELSE
       LET h1 == [h EXCEPT ![device] =
                    [used |-> TRUE, next |-> NULL, prev_next |-> NULL,
                     type |-> ct, device |-> p, mask |-> NoMask]]
           pi1 == [pi EXCEPT ![p].private = device]
       IN IF ct \notin {TyKeyboard, TyMouse}
          THEN [heap |-> h1, devices |-> d, pinfo |-> pi1, ok |-> FALSE,
                err |-> {}]
          ELSE
            LET link == TailLink(h1, d, 0, MaxDevices + 1)
                h2 == [h1 EXCEPT ![device].prev_next = link]
                s == Store(h2, d, link, device)
            IN [heap |-> s.heap, devices |-> s.devices, pinfo |-> pi1,
                ok |-> TRUE, err |-> {}]

\* un_init without the store through prev_next: the record stays linked.
un_init_keeps_link(h, d, pi, p) ==
  LET device == pi[p].private
  IN IF device = NULL
     THEN [heap |-> h, devices |-> d, pinfo |-> pi, err |-> {"null_deref"}]
     ELSE
       LET pi1 == [pi EXCEPT ![p].private = NULL]
           nx == h[device].next
           h1 == IF nx # NULL
                 THEN [h EXCEPT ![nx].prev_next = h[device].prev_next]
                 ELSE h
           h2 == IF h1[device].mask.alloc
                 THEN [h1 EXCEPT ![device].mask = NoMask]
                 ELSE h1
           f == free(h2, device)
       IN [heap |-> f.heap, devices |-> d, pinfo |-> pi1, err |-> f.err]

\* un_init without the update of the successor's prev_next: the record
\* behind the removed one keeps a back-link into the released record.
un_init_stale_back_link(h, d, pi, p) ==
  LET device == pi[p].private
  IN IF device = NULL
     THEN [heap |-> h, devices |-> d, pinfo |-> pi, err |-> {"null_deref"}]
     ELSE
       LET pi1 == [pi EXCEPT ![p].private = NULL]
           s == Store(h, d, h[device].prev_next, h[device].next)
           h2 == IF s.heap[device].mask.alloc
                 THEN [s.heap EXCEPT ![device].mask = NoMask]
                 ELSE s.heap
           f == free(h2, device)
       IN [heap |-> f.heap, devices |-> s.devices, pinfo |-> pi1,
           err |-> f.err]

\* un_init(drv, pInfo, flags).
un_init(h, d, pi, p) ==
  LET device == pi[p].private
  IN IF device = NULL
     THEN [heap |-> h, devices |-> d, pinfo |-> pi, err |-> {"null_deref"}]
     ELSE
       LET pi1 == [pi EXCEPT ![p].private = NULL]
           nx == h[device].next
           s == Store(h, d, h[device].prev_next, nx)
           h1 == IF nx # NULL
                 THEN [s.heap EXCEPT ![nx].prev_next = h[device].prev_next]
                 ELSE s.heap
           h2 == IF h1[device].mask.alloc
                 THEN [h1 EXCEPT ![device].mask = NoMask]
                 ELSE h1
           f == free(h2, device)
       IN [heap |-> f.heap, devices |-> s.devices, pinfo |-> pi1,
           err |-> f.err]

\* device_control(dev, DEVICE_INIT): init_mouse gives a mouse its mask.
device_control(h, device) ==
  IF h[device].type = TyMouse
  THEN [h EXCEPT ![device].mask = valuator_mask_new]
  ELSE h

\* get_device(id): the first record of the list whose host device has the
\* id; NULL when there is none (the assert then fails); FAULT when the scan
\* meets a record whose host device does not exist, or a released record.
RECURSIVE Scan(_, _, _, _, _)
Scan(h, pi, a, id, fuel) ==
  IF a = NULL \/ fuel = 0 THEN NULL
  ELSE IF ~h[a].used \/ h[a].device = NULL THEN FAULT
  ELSE IF pi[h[a].device].dev = NULL THEN FAULT
  ELSE IF pi[h[a].device].dev = id THEN a
  ELSE Scan(h, pi, h[a].next, id, fuel - 1)

get_device(h, d, pi, id) == Scan(h, pi, d, id, MaxDevices + 1)

\* get_keyboard without the assert on the type.
get_keyboard_any_type(h, d, pi, id) ==
  LET device == get_device(h, d, pi, id)
  IN IF device \in Addr THEN device ELSE NULL

\* get_keyboard / get_mouse: the record, or NULL when an assert fails.
get_keyboard(h, d, pi, id) ==
  LET device == get_device(h, d, pi, id)
  IN IF device \in Addr /\ h[device].type = TyKeyboard THEN device ELSE NULL

get_mouse(h, d, pi, id) ==
  LET device == get_device(h, d, pi, id)
  IN IF device \in Addr /\ h[device].type = TyMouse THEN device ELSE NULL

\* The host's DeleteInputDeviceRequest / device teardown: the device is
\* taken out of the host's table, the driver's UnInit callback runs, and the
\* InputInfo structure is the host's again.
DeleteInputDeviceRequest(h, d, pi, p) ==
  LET r == un_init(h, d, pi, p)
  IN [r EXCEPT !.pinfo[p] = FreeInfo]

\* input_remove_device with a cleanup of its own after the host's: the
\* record is released a second time.
input_remove_device_own_free(h, d, pi, id) ==
  LET device == get_device(h, d, pi, id)
  IN IF device \notin Addr
     THEN [heap |-> h, devices |-> d, pinfo |-> pi, err |-> {}, ok |-> FALSE]
     ELSE LET r == DeleteInputDeviceRequest(h, d, pi, h[device].device)
              f == free(r.heap, device)
          IN [heap |-> f.heap, devices |-> r.devices, pinfo |-> r.pinfo,
              err |-> r.err \cup f.err, ok |-> TRUE]

\* input_remove_device(id).
input_remove_device(h, d, pi, id) ==
  LET device == get_device(h, d, pi, id)
  IN IF device \notin Addr
     THEN [heap |-> h, devices |-> d, pinfo |-> pi, err |-> {}, ok |-> FALSE]
     ELSE LET r == DeleteInputDeviceRequest(h, d, pi, h[device].device)
          IN [heap |-> r.heap, devices |-> r.devices, pinfo |-> r.pinfo,
              err |-> r.err, ok |-> TRUE]

\* ----------------------------------------------------------- event injector
\* The key passed on at the width of the message field.
Uint8_keeps_width(x) == x

\* Conversion to uint8_t.
Uint8(x) == x % 256

\* The id of the host device behind a record (device->device->dev).
DevOf(h, pi, device) == pi[h[device].device].dev

KeyEvent(dev, code, down) ==
  [ev |-> "key", dev |-> dev, code |-> code, down |-> down, mask |-> NoMask]
ButtonEvent(dev, button, down) ==
  [ev |-> "button", dev |-> dev, code |-> button, down |-> down, mask |-> NoMask]
MotionEvent(dev, m) ==
  [ev |-> "motion", dev |-> dev, code |-> 0, down |-> 0, mask |-> m]

Failed(h) == [ok |-> FALSE, heap |-> h, events |-> <<>>]

\* input_key_press(keyboard, key) and input_key_release(keyboard, key); the
\* caller's 32-bit key becomes the uint8_t parameter.
input_key(h, d, pi, keyboard, key, down) ==
  LET device == get_keyboard(h, d, pi, keyboard)
  IN IF device = NULL THEN Failed(h)
     ELSE [ok |-> TRUE, heap |-> h,
           events |-> <<KeyEvent(DevOf(h, pi, device), Uint8(key) + MIN_KEYCODE, down)>>]

input_key_press(h, d, pi, keyboard, key) == input_key(h, d, pi, keyboard, key, 1)
input_key_release(h, d, pi, keyboard, key) == input_key(h, d, pi, keyboard, key, 0)

\* input_button_press(mouse, button) and input_button_release(mouse, button).
input_button(h, d, pi, mouse, button, down) ==
  LET device == get_mouse(h, d, pi, mouse)
  IN IF device = NULL THEN Failed(h)
     ELSE [ok |-> TRUE, heap |-> h,
           events |-> <<ButtonEvent(DevOf(h, pi, device), Uint8(button), down)>>]

input_button_press(h, d, pi, mouse, button) == input_button(h, d, pi, mouse, button, 1)
input_button_release(h, d, pi, mouse, button) == input_button(h, d, pi, mouse, button, 0)

\* input_mouse_move with the mask left as the last event filled it.
input_mouse_move_no_zero(h, d, pi, mouse, dx, dy) ==
  LET device == get_mouse(h, d, pi, mouse)
  IN IF device = NULL THEN Failed(h)
     ELSE
       LET m0 == h[device].mask
           m1 == valuator_mask_set_unaccelerated(m0, 0, dx, dx)
           m2 == valuator_mask_set_unaccelerated(m1, 1, dy, dy)
       IN [ok |-> TRUE, heap |-> [h EXCEPT ![device].mask = m2],
           events |-> <<MotionEvent(DevOf(h, pi, device), m2)>>]

\* input_mouse_move(mouse, dx, dy).
input_mouse_move(h, d, pi, mouse, dx, dy) ==
  LET device == get_mouse(h, d, pi, mouse)
  IN IF device = NULL THEN Failed(h)
     ELSE
       LET m0 == valuator_mask_zero(h[device].mask)
           m1 == valuator_mask_set_unaccelerated(m0, 0, dx, dx)
           m2 == valuator_mask_set_unaccelerated(m1, 1, dy, dy)
       IN [ok |-> TRUE, heap |-> [h EXCEPT ![device].mask = m2],
           events |-> <<MotionEvent(DevOf(h, pi, device), m2)>>]

\* int is 32 bits wide: INT_MAX, and the largest factor of 120 within it.
IntMax == (2^30 - 1) * 2 + 1
Fits120(x) == x <= IntMax \div 120 /\ 0 - x <= IntMax \div 120

\* x * 120 reduced to 32 bits, two's complement: 120 = 8 * 15, and 15 * x is
\* reduced modulo 2^29 by additions that stay within 31 bits.
Wrap120(x) ==
  LET Add(a, b) == (a + b) % (2^29)
      e1 == x % (2^29)
      e2 == Add(e1, e1)
      e4 == Add(e2, e2)
      e8 == Add(e4, e4)
      r == Add(Add(Add(e8, e4), e2), e1)
  IN IF r < 2^28 THEN 8 * r ELSE 8 * (r - 2^29)

\* What the int multiplication x * 120 may give: the product when it fits;
\* on overflow, which is undefined, the wrapped product or a trap.
Times120(x) ==
  IF Fits120(x) THEN {[trap |-> FALSE, v |-> x * 120]}
  ELSE {[trap |-> FALSE, v |-> Wrap120(x)], [trap |-> TRUE, v |-> 0]}

\* input_mouse_scroll(mouse, dx, dy); sx and sy are what dx * 120 and
\* dy * 120 give, where they are computed.
input_mouse_scroll(h, d, pi, mouse, dx, dy, sx, sy) ==
  LET device == get_mouse(h, d, pi, mouse)
  IN IF device = NULL THEN Failed(h)
     ELSE IF (dx # 0 /\ sx.trap) \/ (dy # 0 /\ sy.trap) THEN Failed(h)
     ELSE
       LET m0 == valuator_mask_zero(h[device].mask)
           m1 == IF dx # 0 THEN valuator_mask_set(m0, 2, sx.v) ELSE m0
           m2 == IF dy # 0 THEN valuator_mask_set(m1, 3, sy.v) ELSE m1
       IN [ok |-> TRUE, heap |-> [h EXCEPT ![device].mask = m2],
           events |-> <<MotionEvent(DevOf(h, pi, device), m2)>>]

\* -------------------------------------------------------- display collaborator
\* video_connect_second_monitor(connected): the output is connected or not.
video_connect_second_monitor(connected) == IF connected # 0 THEN 1 ELSE 0

\* video_get_info: the topology the collaborator reports.
video_get_info ==
  [second_crtc |-> 21, first_output |-> 22, second_output |-> 23,
   small_mode_id |-> 24, large_mode_id |-> 25]

\* ------------------------------------------------------------------- socket
\* Values an uninitialised word of the stack may hold.
Junk == 0..MaxDevices
\* Values the words a reply's initialiser leaves unspecified may hold.
Unspecified == {0, 1}
\* Key and button values the peer uses.
Keys == {MT_REMOVE_DEVICE, 286}
Buttons == {1}

\* The ids the requests on devices name.  The host gives a new device any
\* id not in use, so each of them may be the id of a keyboard, of a mouse,
\* of a removed device or of none.
Named == {1, 2}

\* The requests of the wire protocol, each with the size its tag fixes.
PeerRequests ==
  {<<MT_CREATE_KEYBOARD>>, <<MT_CREATE_MOUSE>>, <<MT_GET_VIDEO_INFO>>}
  \cup {<<t, i, k>> : t \in {MT_KEY_PRESS, MT_KEY_RELEASE}, i \in Named, k \in Keys}
  \cup {<<t, i, b>> : t \in {MT_BUTTON_PRESS, MT_BUTTON_RELEASE}, i \in Named, b \in Buttons}
  \cup {<<MT_REMOVE_DEVICE, i>> : i \in Named}
  \cup {<<MT_ENABLE_SECOND_MONITOR, e>> : e \in {0, 1}}
  \cup {<<t, 1, 5, 0>> : t \in {MT_MOUSE_MOVE, MT_MOUSE_SCROLL}}

\* Messages whose tag is no request.
PeerStray ==
  {<<MT_NONE>>, <<MT_CREATE_KEYBOARD_REPLY, 1>>, <<MT_ENABLE_SECOND_MONITOR_REPLY>>,
   <<MT_CREATE_MOUSE_REPLY, 1>>, <<MT_GET_VIDEO_INFO_REPLY>>, <<MT_UNDEFINED>>}

PeerMessages == PeerRequests \cup PeerStray

\* The messages of a peer that creates and removes devices.
RegistryMessages ==
  {<<MT_CREATE_KEYBOARD>>} \cup {<<MT_REMOVE_DEVICE, i>> : i \in Ids}

\* The messages of a peer that names devices in its requests; the last one
\* names an id the host never gives out.
DeviceMessages ==
  {<<MT_CREATE_KEYBOARD>>}
  \cup {<<MT_KEY_PRESS, i, 286>> : i \in Named}
  \cup {<<MT_REMOVE_DEVICE, i>> : i \in Named \cup {MaxDevices + 1}}

\* Key values of a peer that types: one below a byte, the largest of a byte
\* and one above a byte.
KeyValues == {30, 255, 286}

\* The messages of a peer that creates keyboards and types on them.
KeyMessages ==
  {<<MT_CREATE_KEYBOARD>>}
  \cup {<<t, i, k>> : t \in {MT_KEY_PRESS, MT_KEY_RELEASE}, i \in Named, k \in KeyValues}

\* The messages of a peer that queues messages back to back, and the
\* messages it cuts short: a key press without its key, a removal without
\* its id.
StreamMessages ==
  {<<MT_CREATE_KEYBOARD>>, <<MT_GET_VIDEO_INFO>>, <<MT_REMOVE_DEVICE, 1>>,
   <<MT_KEY_PRESS, 1, 286>>}

ShortMessages == {<<MT_KEY_PRESS, 1>>, <<MT_REMOVE_DEVICE>>}

\* The words of m as queued: the first one carries the mark of a message start.
Queued(m) == [i \in 1..Len(m) |-> [w |-> m[i], start |-> (i = 1)]]

\* Words of the message at the head of buf, as the peer sent it.
MsgLen(buf) ==
  IF \E i \in 2..Len(buf) : buf[i].start
  THEN (CHOOSE i \in 2..Len(buf) : buf[i].start /\ \A j \in 2..(i - 1) : ~buf[j].start) - 1
  ELSE Len(buf)

\* read(fd, &message, sizeof(message)): the number of words it delivers.
ReadSize(avail) == Min(MessageWords, avail)

\* The Message the read leaves on the stack: the words delivered, and what
\* the stack held (j2, j3) where the read delivered nothing.
Read(buf, j2, j3) ==
  LET n == ReadSize(Len(buf))
  IN [n |-> n, type |-> buf[1].w,
      w2 |-> IF n >= 2 THEN buf[2].w ELSE j2,
      w3 |-> IF n >= 3 THEN buf[3].w ELSE j3]

\* The switch with the create case on the tag after MT_CREATE_KEYBOARD.
Route_reply_tag(type) ==
  CASE type = MT_CREATE_KEYBOARD_REPLY -> "create_keyboard"
    [] type = MT_KEY_PRESS -> "key_press"
    [] type = MT_KEY_RELEASE -> "key_release"
    [] type = MT_REMOVE_DEVICE -> "remove_device"
    [] type = MT_ENABLE_SECOND_MONITOR -> "enable_second_monitor"
    [] type = MT_GET_VIDEO_INFO -> "get_video_info"
    [] OTHER -> "invalid"

\* The switch of handle_message.
Route(type) ==
  CASE type = MT_CREATE_KEYBOARD -> "create_keyboard"
    [] type = MT_KEY_PRESS -> "key_press"
    [] type = MT_KEY_RELEASE -> "key_release"
    [] type = MT_REMOVE_DEVICE -> "remove_device"
    [] type = MT_ENABLE_SECOND_MONITOR -> "enable_second_monitor"
    [] type = MT_GET_VIDEO_INFO -> "get_video_info"
    [] OTHER -> "invalid"

\* The reply with the tag of the request in place of the reply's.
CreateKeyboardReply_request_tag(id) == <<MT_CREATE_KEYBOARD, id>>

\* The replies, in the order of their words on the wire.
CreateKeyboardReply(id) == <<MT_CREATE_KEYBOARD_REPLY, id>>

EnableSecondMonitorReply(u2, u3) == <<MT_ENABLE_SECOND_MONITOR_REPLY, u2, u3>>

GetVideoInfoReply(v) ==
  <<MT_GET_VIDEO_INFO_REPLY, v.second_crtc, v.second_output, v.first_output,
    v.large_mode_id, v.small_mode_id>>

\* The peer's reading of a GetVideoInfo reply, by the layout of the wire
\* protocol table: tag, second_crtc, first_output, second_output,
\* small_mode_id, large_mode_id.
DecodeGetVideoInfoReply(w) ==
  [second_crtc |-> w[2], first_output |-> w[3], second_output |-> w[4],
   small_mode_id |-> w[5], large_mode_id |-> w[6]]

\* What is recorded of an operation: who entered it, the code that ran, the
\* tag read from the socket (0 when nothing was read), the device id it
\* named, the replies written, the events posted, how it ended and what a
\* create returned.
Op(entry, handler, tag, id, writes, events, status, ret) ==
  [entry |-> entry, handler |-> handler, tag |-> tag, id |-> id,
   writes |-> writes, events |-> events, status |-> status, ret |-> ret]

Status(ok) == IF ok THEN "returned" ELSE "fatal"
\* The result of read and write left unchecked: the handler returns.
Pc_unchecked(ok) == "idle"

Pc(ok) == IF ok THEN "idle" ELSE "dead"

\* --------------------------------------------------------------------- Init
Init ==
  /\ pc = "idle"
  /\ heap = [a \in Addr |-> FreeCell]
  /\ devices = NULL
  /\ current_type = 0
  /\ next_input_id = 1
  /\ pinfo = [p \in Info |-> FreeInfo]
  /\ memerr = {}
  /\ inbuf = <<>>
  /\ second_monitor = 0
  /\ options = NoName
  /\ last = Op("none", "none", 0, 0, <<>>, <<>>, "returned", 0)

\* --------------------------------------------------------------------- peer
PeerSend(m) ==
  /\ pc # "dead"
  /\ Len(inbuf) + Len(m) <= MaxBuf
  /\ inbuf' = inbuf \o Queued(m)
  /\ UNCHANGED <<pc, heap, devices, current_type, next_input_id, pinfo, memerr,
                 options, second_monitor, last>>

\* The peer of a request/reply exchange: it sends its next message once the
\* core has taken the previous one.
PeerRequest(m) ==
  /\ pc = "idle" /\ inbuf = <<>>
  /\ PeerSend(m)

\* ----------------------------------------------------------- handle_message
\* What follows the words one read consumed.
Rest(buf, rd) == SubSeq(buf, rd.n + 1, Len(buf))

\* The values to consider for word k of the Message: one when the read
\* delivers the word, what the stack may hold otherwise.
JunkFor(k) == IF ReadSize(Len(inbuf)) >= k THEN {0} ELSE Junk

\* input_new_mouse as a copy of input_new_keyboard with the type left as is.
input_new_mouse_as_keyboard == TyKeyboard

\* input_new_keyboard / input_new_mouse: the value given to current_type.
input_new_keyboard == TyKeyboard
input_new_mouse == TyMouse

\* input_new returning the number it printed in the name.
input_new_returns_counter(pi, p, nid) == nid - 1

\* input_new: what it returns, with nid the counter after the increment.
input_new(pi, p, nid) == pi[p].dev

\* Entry of a create: current_type is set, input_new takes the next number
\* for the name, and the host's NewInputDeviceRequest begins.
BeginCreate(entry, handler, tag, ty, prefix) ==
  /\ next_input_id <= MaxCreates
  /\ current_type' = ty
  /\ next_input_id' = next_input_id + 1
  /\ options' = [prefix |-> prefix, n |-> next_input_id]
  /\ pc' = "request"
  /\ last' = Op(entry, handler, tag, 0, <<>>, <<>>, "running", 0)
  /\ UNCHANGED <<heap, devices, pinfo, memerr, second_monitor>>

DispatchCreateKeyboard ==
  /\ pc = "idle" /\ inbuf # <<>>
  /\ LET rd == Read(inbuf, 0, 0)
     IN /\ Route(rd.type) = "create_keyboard"
        /\ inbuf' = Rest(inbuf, rd)
        /\ BeginCreate("dispatch", "create_keyboard", rd.type, input_new_keyboard,
                       "keyboard")

\* MT_KEY_PRESS and MT_KEY_RELEASE.
DispatchKey(handler) ==
  /\ pc = "idle" /\ inbuf # <<>>
  /\ \E j2 \in JunkFor(2), j3 \in JunkFor(3) :
       LET rd == Read(inbuf, j2, j3)
           r == IF handler = "key_press"
                THEN input_key_press(heap, devices, pinfo, rd.w2, rd.w3)
                ELSE input_key_release(heap, devices, pinfo, rd.w2, rd.w3)
       IN /\ Route(rd.type) = handler
          /\ inbuf' = Rest(inbuf, rd)
          /\ pc' = Pc(r.ok)
          /\ last' = Op("dispatch", handler, rd.type, rd.w2, <<>>, r.events, Status(r.ok), 0)
  /\ UNCHANGED <<heap, devices, current_type, next_input_id, pinfo, memerr,
                 options, second_monitor>>

DispatchKeyPress == DispatchKey("key_press")
DispatchKeyRelease == DispatchKey("key_release")

DispatchRemoveDevice ==
  /\ pc = "idle" /\ inbuf # <<>>
  /\ \E j2 \in JunkFor(2) :
       LET rd == Read(inbuf, j2, 0)
           r == input_remove_device(heap, devices, pinfo, rd.w2)
       IN /\ Route(rd.type) = "remove_device"
          /\ inbuf' = Rest(inbuf, rd)
          /\ heap' = r.heap
          /\ devices' = r.devices
          /\ pinfo' = r.pinfo
          /\ memerr' = memerr \cup r.err
          /\ pc' = Pc(r.ok)
          /\ last' = Op("dispatch", "remove_device", rd.type, rd.w2, <<>>, <<>>, Status(r.ok), 0)
  /\ UNCHANGED <<current_type, next_input_id, options, second_monitor>>

\* MT_ENABLE_SECOND_MONITOR; u2 and u3 are the words of the reply that its
\* initialiser leaves unspecified.
DispatchEnableSecondMonitor ==
  /\ pc = "idle" /\ inbuf # <<>>
  /\ \E j2 \in JunkFor(2), u2 \in Unspecified, u3 \in Unspecified, wok \in BOOLEAN :
       LET rd == Read(inbuf, j2, 0)
       IN /\ Route(rd.type) = "enable_second_monitor"
          /\ inbuf' = Rest(inbuf, rd)
          /\ second_monitor' = video_connect_second_monitor(rd.w2)
          /\ pc' = Pc(wok)
          /\ last' = Op("dispatch", "enable_second_monitor", rd.type, 0,
                        IF wok THEN <<EnableSecondMonitorReply(u2, u3)>> ELSE <<>>,
                        <<>>, Status(wok), 0)
  /\ UNCHANGED <<heap, devices, current_type, next_input_id, pinfo, memerr,
                 options>>

\* The MT_GET_VIDEO_INFO case connecting the second output before it asks.
DispatchGetVideoInfo_connects ==
  /\ pc = "idle" /\ inbuf # <<>>
  /\ \E wok \in BOOLEAN :
       LET rd == Read(inbuf, 0, 0)
       IN /\ Route(rd.type) = "get_video_info"
          /\ inbuf' = Rest(inbuf, rd)
          /\ second_monitor' = video_connect_second_monitor(1)
          /\ pc' = Pc(wok)
          /\ last' = Op("dispatch", "get_video_info", rd.type, 0,
                        IF wok THEN <<GetVideoInfoReply(video_get_info)>> ELSE <<>>,
                        <<>>, Status(wok), 0)
  /\ UNCHANGED <<heap, devices, current_type, next_input_id, pinfo, memerr,
                 options>>

DispatchGetVideoInfo ==
  /\ pc = "idle" /\ inbuf # <<>>
  /\ \E wok \in BOOLEAN :
       LET rd == Read(inbuf, 0, 0)
       IN /\ Route(rd.type) = "get_video_info"
          /\ inbuf' = Rest(inbuf, rd)
          /\ pc' = Pc(wok)
          /\ last' = Op("dispatch", "get_video_info", rd.type, 0,
                        IF wok THEN <<GetVideoInfoReply(video_get_info)>> ELSE <<>>,
                        <<>>, Status(wok), 0)
  /\ UNCHANGED <<heap, devices, current_type, next_input_id, pinfo, memerr,
                 options, second_monitor>>

\* default: of the switch.
DispatchInvalid ==
  /\ pc = "idle" /\ inbuf # <<>>
  /\ LET rd == Read(inbuf, 0, 0)
     IN /\ Route(rd.type) = "invalid"
        /\ inbuf' = Rest(inbuf, rd)
        /\ pc' = "dead"
        /\ last' = Op("dispatch", "invalid", rd.type, 0, <<>>, <<>>, "fatal", 0)
  /\ UNCHANGED <<heap, devices, current_type, next_input_id, pinfo, memerr,
                 options, second_monitor>>

\* The host reports the socket readable and read returns no data (the peer
\* is gone): the assert on the result of read fails.
ReadFails ==
  /\ pc = "idle" /\ inbuf = <<>>
  /\ pc' = "dead"
  /\ last' = Op("dispatch", "none", 0, 0, <<>>, <<>>, "fatal", 0)
  /\ UNCHANGED <<heap, devices, current_type, next_input_id, pinfo, memerr,
                 options, inbuf, second_monitor>>

\* ------------------------------------------- exported entry points of input.c
\* input_new_mouse(), called with no message of the socket behind it.
ApiNewMouse ==
  /\ pc = "idle"
  /\ BeginCreate("api", "create_mouse", 0, input_new_mouse, "mouse")
  /\ UNCHANGED inbuf

\* An input_* call on a mouse: r is what the function makes of the state.
ApiMouse(handler, id, r) ==
  /\ pc = "idle"
  /\ heap' = r.heap
  /\ pc' = Pc(r.ok)
  /\ last' = Op("api", handler, 0, id, <<>>, r.events, Status(r.ok), 0)
  /\ UNCHANGED <<devices, current_type, next_input_id, pinfo, memerr, options,
                 inbuf, second_monitor>>

ApiButtonPress(id, b) ==
  ApiMouse("button_press", id, input_button_press(heap, devices, pinfo, id, b))

ApiButtonRelease(id, b) ==
  ApiMouse("button_release", id, input_button_release(heap, devices, pinfo, id, b))

ApiMouseMove(id, dx, dy) ==
  ApiMouse("mouse_move", id, input_mouse_move(heap, devices, pinfo, id, dx, dy))

ApiMouseScroll(id, dx, dy) ==
  \E sx \in Times120(dx), sy \in Times120(dy) :
    ApiMouse("mouse_scroll", id,
             input_mouse_scroll(heap, devices, pinfo, id, dx, dy, sx, sy))

\* --------------------------------------------------------------------- host
FreeIds == Ids \ {pinfo[p].dev : p \in Info}

\* The InputInfo of the creation in progress.
Creating == CHOOSE p \in Info : pinfo[p].used /\ pinfo[p].dev = NULL

\* NewInputDeviceRequest fails before the driver is asked: the assert of
\* input_new fails.
HostRejectEarly ==
  /\ pc = "request"
  /\ pc' = "dead"
  /\ last' = [last EXCEPT !.status = "fatal"]
  /\ UNCHANGED <<heap, devices, current_type, next_input_id, pinfo, memerr,
                 options, inbuf, second_monitor>>

\* NewInputDeviceRequest allocates the InputInfo and calls PreInit.
HostPreInit ==
  /\ pc = "request"
  /\ \E p \in Info :
       /\ ~pinfo[p].used
       /\ \A q \in Info : q < p => pinfo[q].used
       /\ LET pi0 == [pinfo EXCEPT ![p] = [used |-> TRUE, private |-> NULL, dev |-> NULL,
                                           name |-> options]]
              r == pre_init(heap, devices, pi0, current_type, p)
          IN /\ heap' = r.heap
             /\ devices' = r.devices
             /\ pinfo' = r.pinfo
             /\ memerr' = memerr \cup r.err
             /\ pc' = IF r.ok THEN "preinited" ELSE "dead"
             /\ last' = IF r.ok THEN last ELSE [last EXCEPT !.status = "fatal"]
  /\ UNCHANGED <<current_type, next_input_id, options, inbuf, second_monitor>>

\* The host adds the device under a free id, activates it (DEVICE_INIT) and
\* NewInputDeviceRequest succeeds; input_new returns, and handle_message
\* writes the reply.
HostAccept ==
  /\ pc = "preinited"
  /\ \E i \in FreeIds, wok \in (IF last.entry = "dispatch" THEN BOOLEAN ELSE {TRUE}) :
       LET p == Creating
           pi1 == [pinfo EXCEPT ![p].dev = i]
           id == input_new(pi1, p, next_input_id)
       IN /\ pinfo' = pi1
          /\ heap' = device_control(heap, pinfo[p].private)
          /\ options' = NoName
          /\ pc' = Pc(wok)
          /\ last' = [last EXCEPT !.ret = id, !.status = Status(wok),
                        !.writes = IF last.entry = "dispatch" /\ wok
                                   THEN <<CreateKeyboardReply(id)>> ELSE <<>>]
  /\ UNCHANGED <<devices, current_type, next_input_id, memerr, inbuf,
                 second_monitor>>

\* The host gives the device up after PreInit: it calls UnInit and
\* NewInputDeviceRequest fails; the assert of input_new fails.
HostRejectLate ==
  /\ pc = "preinited"
  /\ LET r == DeleteInputDeviceRequest(heap, devices, pinfo, Creating)
     IN /\ heap' = r.heap
        /\ devices' = r.devices
        /\ pinfo' = r.pinfo
        /\ memerr' = memerr \cup r.err
  /\ pc' = "dead"
  /\ last' = [last EXCEPT !.status = "fatal"]
  /\ UNCHANGED <<current_type, next_input_id, options, inbuf, second_monitor>>

\* The host removes a device on its own and calls the driver's UnInit.
HostTeardown(p) ==
  /\ pc = "idle"
  /\ pinfo[p].used /\ pinfo[p].dev # NULL
  /\ LET r == DeleteInputDeviceRequest(heap, devices, pinfo, p)
     IN /\ heap' = r.heap
        /\ devices' = r.devices
        /\ pinfo' = r.pinfo
        /\ memerr' = memerr \cup r.err
  /\ last' = Op("host", "un_init", 0, pinfo[p].dev, <<>>, <<>>, "returned", 0)
  /\ UNCHANGED <<pc, current_type, next_input_id, options, inbuf, second_monitor>>

\* The host creates, on its own, a device that its configuration gives to
\* the driver: it allocates the InputInfo, calls PreInit, and on success
\* activates the device (DEVICE_INIT) under a free id.  No input_new_* call
\* is in progress: pre_init finds in current_type what the last one left.
HostOwnPreInit ==
  /\ pc = "idle"
  /\ \E p \in Info, i \in FreeIds :
       /\ ~pinfo[p].used
       /\ \A q \in Info : q < p => pinfo[q].used
       /\ LET pi0 == [pinfo EXCEPT ![p] = [used |-> TRUE, private |-> NULL, dev |-> NULL,
                                           name |-> [prefix |-> "host", n |-> 0]]]
              r == pre_init(heap, devices, pi0, current_type, p)
          IN /\ heap' = IF r.ok THEN device_control(r.heap, r.pinfo[p].private) ELSE r.heap
             /\ devices' = r.devices
             /\ pinfo' = IF r.ok THEN [r.pinfo EXCEPT ![p].dev = i] ELSE r.pinfo
             /\ memerr' = memerr \cup r.err
             /\ pc' = Pc(r.ok)
             /\ last' = Op("host", "pre_init", 0, IF r.ok THEN i ELSE 0, <<>>, <<>>,
                           Status(r.ok), 0)
  /\ UNCHANGED <<current_type, next_input_id, options, inbuf, second_monitor>>

\* ----------------------------------------------------------- specifications
\* The steps of the host inside NewInputDeviceRequest.
HostCreate ==
  \/ HostRejectEarly
  \/ HostPreInit
  \/ HostAccept
  \/ HostRejectLate

\* The dispatch loop under a peer that sends one message and waits.
Next ==
  \/ \E m \in PeerMessages : PeerRequest(m)
  \/ DispatchCreateKeyboard
  \/ DispatchKeyPress
  \/ DispatchKeyRelease
  \/ DispatchRemoveDevice
  \/ DispatchEnableSecondMonitor
  \/ DispatchGetVideoInfo
  \/ DispatchInvalid
  \/ ReadFails
  \/ HostCreate
  \/ \E p \in Info : HostTeardown(p)

Spec == Init /\ [][Next]_vars

\* The registry under creations of both kinds and removals by the peer and
\* by the host.
NextDevices ==
  \/ \E m \in RegistryMessages : PeerRequest(m)
  \/ DispatchCreateKeyboard
  \/ DispatchRemoveDevice
  \/ ApiNewMouse
  \/ HostCreate
  \/ \E p \in Info : HostTeardown(p)

SpecDevices == Init /\ [][NextDevices]_vars

\* The requests that name a device, on devices of both kinds: key presses
\* and removals of the peer, and the input_* calls on a mouse.
NextInput ==
  \/ \E m \in DeviceMessages : PeerRequest(m)
  \/ DispatchCreateKeyboard
  \/ DispatchKeyPress
  \/ DispatchRemoveDevice
  \/ ApiNewMouse
  \/ \E id \in Named, b \in Buttons : ApiButtonPress(id, b)
  \/ \E id \in Named, b \in Buttons : ApiButtonRelease(id, b)
  \/ \E id \in Named : ApiMouseMove(id, 0 - 3, 7)
  \/ \E id \in Named : ApiMouseScroll(id, 0, 5)
  \/ HostCreate

SpecInput == Init /\ [][NextInput]_vars

\* The dispatch loop under a peer that creates keyboards and types on them.
NextKeys ==
  \/ \E m \in KeyMessages : PeerRequest(m)
  \/ DispatchCreateKeyboard
  \/ DispatchKeyPress
  \/ DispatchKeyRelease
  \/ HostCreate

SpecKeys == Init /\ [][NextKeys]_vars

\* Deltas of pointer motion and of scrolling; the last scroll delta is 2^29
\* notches.
MoveDeltas == {0 - 3, 0, 7}
ScrollDeltas == {0, 5, 2^29}

\* Mice under input_mouse_move and input_mouse_scroll.
NextMouse ==
  \/ ApiNewMouse
  \/ \E id \in Named, dx \in MoveDeltas, dy \in MoveDeltas : ApiMouseMove(id, dx, dy)
  \/ \E id \in Named, dx \in ScrollDeltas, dy \in ScrollDeltas : ApiMouseScroll(id, dx, dy)
  \/ HostCreate

SpecMouse == Init /\ [][NextMouse]_vars

\* The registry under a host that also creates devices of its own for the
\* driver.
NextHost ==
  \/ \E m \in RegistryMessages : PeerRequest(m)
  \/ DispatchCreateKeyboard
  \/ DispatchRemoveDevice
  \/ ApiNewMouse
  \/ HostCreate
  \/ HostOwnPreInit

SpecHost == Init /\ [][NextHost]_vars

\* The dispatch loop under a peer that queues messages back to back.
NextStream ==
  \/ \E m \in StreamMessages \cup ShortMessages : PeerSend(m)
  \/ DispatchCreateKeyboard
  \/ DispatchKeyPress
  \/ DispatchRemoveDevice
  \/ DispatchGetVideoInfo
  \/ DispatchInvalid
  \/ HostCreate

SpecStream == Init /\ [][NextStream]_vars

\* ------------------------------------------------------------------- claims
\* The request tags of the wire protocol and the handler of each.
RequestTags ==
  {MT_CREATE_KEYBOARD, MT_CREATE_MOUSE, MT_KEY_PRESS, MT_KEY_RELEASE,
   MT_BUTTON_PRESS, MT_BUTTON_RELEASE, MT_MOUSE_MOVE, MT_MOUSE_SCROLL,
   MT_REMOVE_DEVICE, MT_ENABLE_SECOND_MONITOR, MT_GET_VIDEO_INFO}

HandlerOf(tag) ==
  CASE tag = MT_CREATE_KEYBOARD -> "create_keyboard"
    [] tag = MT_CREATE_MOUSE -> "create_mouse"
    [] tag = MT_KEY_PRESS -> "key_press"
    [] tag = MT_KEY_RELEASE -> "key_release"
    [] tag = MT_BUTTON_PRESS -> "button_press"
    [] tag = MT_BUTTON_RELEASE -> "button_release"
    [] tag = MT_MOUSE_MOVE -> "mouse_move"
    [] tag = MT_MOUSE_SCROLL -> "mouse_scroll"
    [] tag = MT_REMOVE_DEVICE -> "remove_device"
    [] tag = MT_ENABLE_SECOND_MONITOR -> "enable_second_monitor"
    [] tag = MT_GET_VIDEO_INFO -> "get_video_info"
    [] OTHER -> "invalid"

\* The requests that define a reply, and the tag of the reply.
ReplyingTags ==
  {MT_CREATE_KEYBOARD, MT_CREATE_MOUSE, MT_ENABLE_SECOND_MONITOR, MT_GET_VIDEO_INFO}

ReplyTagOf(tag) ==
  CASE tag = MT_CREATE_KEYBOARD -> MT_CREATE_KEYBOARD_REPLY
    [] tag = MT_CREATE_MOUSE -> MT_CREATE_MOUSE_REPLY
    [] tag = MT_ENABLE_SECOND_MONITOR -> MT_ENABLE_SECOND_MONITOR_REPLY
    [] tag = MT_GET_VIDEO_INFO -> MT_GET_VIDEO_INFO_REPLY
    [] OTHER -> MT_NONE

\* A step in which handle_message takes words from the socket.
Dispatched == pc = "idle" /\ Len(inbuf') < Len(inbuf)

\* C1: every invocation of handle_message runs one handler, and each of the
\* eleven request tags (create-keyboard, create-mouse, key-press,
\* key-release, button-press, button-release, mouse-move, mouse-scroll,
\* remove-device, enable-second-monitor, get-video-info) is routed to its own
\* handler, none of them to the branch for unknown tags.
C1_EveryRequestRouted ==
  [][(Dispatched /\ inbuf[1].w \in RequestTags)
       => last'.handler = HandlerOf(inbuf[1].w)]_vars

\* C2: an invocation of handle_message that returns has written exactly one
\* message, carrying the matching reply tag, when the request is
\* create-keyboard, create-mouse, enable-second-monitor or get-video-info,
\* and none for every other request; nothing is written before the request's
\* work is done, and nothing outside an invocation (not in the teardown
\* callback of the host).
C2_OneReplyPerReplyingRequest ==
  /\ Len(last.writes) <= 1
  /\ last.entry # "dispatch" => last.writes = <<>>
  /\ last.status = "running" => last.writes = <<>>
  /\ (last.entry = "dispatch" /\ last.status = "returned") =>
       IF last.tag \in ReplyingTags
       THEN Len(last.writes) = 1 /\ last.writes[1][1] = ReplyTagOf(last.tag)
       ELSE last.writes = <<>>

\* A create-keyboard invocation has returned with its one reply, the new
\* device registered.
C2_Witness ==
  /\ last.entry = "dispatch" /\ last.status = "returned"
  /\ last.tag = MT_CREATE_KEYBOARD
  /\ last.writes = <<CreateKeyboardReply(last.ret)>>
  /\ devices # NULL

\* C8: a message whose tag is none of the request tags (tag 0, a reply tag,
\* a tag no table defines) is fatal: handle_message ends the core, with no
\* device created, removed or driven and no reply written.
C8_UnknownTagFatal ==
  [][(Dispatched /\ inbuf[1].w \notin RequestTags)
       => /\ pc' = "dead"
          /\ last'.status = "fatal"
          /\ last'.writes = <<>> /\ last'.events = <<>>
          /\ UNCHANGED <<heap, devices, pinfo, current_type, next_input_id,
                         options, second_monitor>>]_vars

\* The core ended on a reply tag sent by the peer, its keyboard still
\* registered.
C8_Witness ==
  /\ pc = "dead" /\ last.handler = "invalid" /\ last.status = "fatal"
  /\ last.tag = MT_CREATE_KEYBOARD_REPLY
  /\ devices # NULL

\* The host devices that exist, and their ids.
Live(p) == pinfo[p].used /\ pinfo[p].dev # NULL
LiveIds == {pinfo[p].dev : p \in {q \in Info : Live(q)}}
InfoOf(i) == CHOOSE p \in Info : Live(p) /\ pinfo[p].dev = i

Range(f) == {f[x] : x \in DOMAIN f}

\* Every record of the list is pointed at by the link its prev_next names.
WellLinked(h, d) ==
  \A a \in Range(Registry(h, d)) : Deref(h, d, h[a].prev_next) = a

\* C3: after the removal of a live device a lookup of its id finds nothing
\* until the host gives the id to a new device (a lookup finds an id exactly
\* when the host has a device with it), and records, host handles and masks
\* are released once: no release of a released cell, no mask left behind,
\* and no record allocated outside the registry.
C3_RemovedIsGone ==
  /\ memerr = {}
  /\ pc # "dead" =>
       \A a \in Addr : heap[a].used <=> a \in Range(Registry(heap, devices))
  /\ \A p \in Info : pinfo[p].private # NULL =>
       /\ pinfo[p].used
       /\ heap[pinfo[p].private].used
       /\ heap[pinfo[p].private].device = p
  /\ pc = "idle" =>
       \A i \in Ids : get_device(heap, devices, pinfo, i) \in Addr <=> i \in LiveIds
  /\ (last.handler = "remove_device" /\ last.status = "returned") =>
       /\ get_device(heap, devices, pinfo, last.id) = NULL
       /\ last.id \notin LiveIds

\* The peer removed one of two devices: the removal returned, and a mouse
\* is still live and registered.
C3_Witness ==
  /\ last.handler = "remove_device" /\ last.status = "returned"
  /\ devices # NULL
  /\ next_input_id > 2
  /\ \E p \in Info : Live(p) /\ pinfo[p].name.prefix = "mouse"

\* The steps that remove a device: the peer's RemoveDevice, and the host's
\* own teardown.
PeerRemoval ==
  Dispatched /\ last'.handler = "remove_device" /\ last'.status = "returned"
HostRemoval ==
  pc = "idle" /\ inbuf' = inbuf /\ last'.entry = "host" /\ pinfo' # pinfo

\* What a removal of the device with id i has to leave: the list without the
\* record and in the same order, well linked; the cell and the host's
\* structure released, once; every other record as it was.
RemovedAs(i) ==
  LET p == InfoOf(i)
      a == pinfo[p].private
  IN /\ Registry(heap', devices') =
          SelectSeq(Registry(heap, devices), LAMBDA x : x # a)
     /\ WellLinked(heap', devices')
     /\ heap'[a] = FreeCell
     /\ \A b \in Addr \ {a} :
          /\ heap'[b].used = heap[b].used
          /\ heap'[b].type = heap[b].type
          /\ heap'[b].device = heap[b].device
          /\ heap'[b].mask = heap[b].mask
     /\ pinfo' = [pinfo EXCEPT ![p] = FreeInfo]
     /\ memerr' = memerr
     /\ UNCHANGED <<pc, current_type, next_input_id, options, second_monitor>>

\* C4: a teardown the host starts on its own is handled as a RemoveDevice of
\* the peer for the same id: from the same state either one leaves the same
\* registry and the same released resources, and no record is released
\* twice or stays in the registry.
C4_TeardownLikeRemoval ==
  [][(PeerRemoval \/ HostRemoval)
       => (last'.id \in LiveIds /\ RemovedAs(last'.id))]_vars

\* The host tore down the head of a list of two: the mouse behind it is now
\* the head.
C4_Witness ==
  /\ last.entry = "host" /\ last.handler = "un_init"
  /\ devices # NULL
  /\ heap[devices].type = TyMouse /\ heap[devices].mask.alloc
  /\ calloc(heap) = 1

\* C5: the id a create returns (and the reply carries) is the id the host
\* gave the device just created, and no other live device has it.
C5_ReturnedIdIsNewDevice ==
  (last.handler \in {"create_keyboard", "create_mouse"} /\ last.status = "returned") =>
     LET reg == Registry(heap, devices)
     IN /\ reg # <<>>
        /\ DevOf(heap, pinfo, reg[Len(reg)]) = last.ret
        /\ pinfo[heap[reg[Len(reg)]].device].name.n = next_input_id - 1
        /\ Cardinality({p \in Info : Live(p) /\ pinfo[p].dev = last.ret}) = 1
        /\ last.entry = "dispatch" =>
             last.writes = << <<MT_CREATE_KEYBOARD_REPLY, last.ret>> >>

\* A create returned an id the host had used before: the third device made
\* has id 1, next to a live device with id 2.
C5_Witness ==
  /\ last.handler = "create_keyboard" /\ last.status = "returned"
  /\ last.ret = 1 /\ next_input_id = 4
  /\ LiveIds = {1, 2}

\* C6: while a created device is live, the typed lookup of its id with its
\* kind gives its record and the typed lookup with the other kind fails on
\* the kind (the untyped lookup finds the record), whatever was created or
\* removed in between.
C6_TypedLookup ==
  pc = "idle" =>
    \A p \in Info : Live(p) =>
      LET i == pinfo[p].dev
          a == pinfo[p].private
      IN /\ get_device(heap, devices, pinfo, i) = a
         /\ IF pinfo[p].name.prefix = "keyboard"
            THEN /\ get_keyboard(heap, devices, pinfo, i) = a
                 /\ get_mouse(heap, devices, pinfo, i) = NULL
            ELSE /\ get_mouse(heap, devices, pinfo, i) = a
                 /\ get_keyboard(heap, devices, pinfo, i) = NULL

\* A keyboard and a mouse are live after three creations and a removal.
C6_Witness ==
  /\ pc = "idle" /\ next_input_id = 4
  /\ \E p \in Info : Live(p) /\ pinfo[p].name.prefix = "keyboard"
  /\ \E p \in Info : Live(p) /\ pinfo[p].name.prefix = "mouse"

\* The steps of the requests that name a device.
DispatchIdOp ==
  Dispatched /\ last'.handler \in {"key_press", "key_release", "remove_device"}
ApiIdOp ==
  /\ pc = "idle" /\ inbuf' = inbuf /\ last' # last
  /\ last'.entry = "api"
  /\ last'.handler \in {"button_press", "button_release", "mouse_move", "mouse_scroll"}

\* The request names no live device, or one of the wrong kind for it.
Misnamed(handler, i) ==
  \/ i \notin LiveIds
  \/ /\ handler \in {"key_press", "key_release"}
     /\ pinfo[InfoOf(i)].name.prefix # "keyboard"
  \/ /\ handler \in {"button_press", "button_release", "mouse_move", "mouse_scroll"}
     /\ pinfo[InfoOf(i)].name.prefix # "mouse"

\* C7: a request that names an id not in the registry, or a device of the
\* wrong kind for the operation, is fatal: the core ends, no event goes to
\* the host and the registry is as before.
C7_MisnamedDeviceFatal ==
  [][((DispatchIdOp \/ ApiIdOp) /\ Misnamed(last'.handler, last'.id))
       => /\ pc' = "dead"
          /\ last'.status = "fatal"
          /\ last'.events = <<>>
          /\ UNCHANGED <<heap, devices, pinfo>>]_vars

\* The core ended on a key press that named a live mouse.
C7_Witness ==
  /\ pc = "dead" /\ last.handler = "key_press" /\ last.status = "fatal"
  /\ last.id \in LiveIds
  /\ pinfo[InfoOf(last.id)].name.prefix = "mouse"

\* The size, in words, the wire protocol fixes for each request tag.
FixedSize(tag) ==
  CASE tag \in {MT_CREATE_KEYBOARD, MT_CREATE_MOUSE, MT_GET_VIDEO_INFO} -> 1
    [] tag \in {MT_REMOVE_DEVICE, MT_ENABLE_SECOND_MONITOR} -> 2
    [] tag \in {MT_KEY_PRESS, MT_KEY_RELEASE, MT_BUTTON_PRESS, MT_BUTTON_RELEASE} -> 3
    [] tag \in {MT_MOUSE_MOVE, MT_MOUSE_SCROLL} -> 4
    [] OTHER -> 1

\* C9: a read that delivers fewer words than the size fixed for the tag it
\* starts with is fatal: the message is not routed or acted on.  (Stated of
\* the reads that find one message, cut short by the peer, alone in the
\* queue.)
C9_UndersizedReadFatal ==
  [][(/\ Dispatched
      /\ inbuf[1].start /\ MsgLen(inbuf) = Len(inbuf)
      /\ inbuf[1].w \in RequestTags
      /\ Len(inbuf) - Len(inbuf') < FixedSize(inbuf[1].w))
       => /\ pc' = "dead"
          /\ last'.events = <<>>
          /\ UNCHANGED <<heap, devices, pinfo>>]_vars

\* C10: the words one invocation takes from the stream are those of the
\* message at its head, as many as its tag fixes, so that the next
\* invocation starts at the first word of the next message.
C10_ConsumesFixedSize ==
  [][(/\ Dispatched
      /\ inbuf[1].start
      /\ inbuf[1].w \in RequestTags
      /\ MsgLen(inbuf) = FixedSize(inbuf[1].w))
       => /\ Len(inbuf) - Len(inbuf') = FixedSize(inbuf[1].w)
          /\ inbuf' # <<>> => inbuf'[1].start]_vars

\* The records of the list whose host device has no id: the device is not
\* (or not yet) one of the host's.
Unregistered == {a \in Range(Registry(heap, devices)) : DevOf(heap, pinfo, a) = NULL}

\* A step in which a creation ends in the fatal stop with no device added to
\* the host's: the host rejected the registration.
HostRejects ==
  pc \in {"request", "preinited"} /\ pc' = "dead" /\ LiveIds' \subseteq LiveIds

\* C11: when the host rejects the registration of a device being created,
\* the creation ends in the fatal stop and the registry held no record for
\* that device before it: a record enters the registry only once the host
\* has accepted the device and given it its id.
C11_NoRecordBeforeAccept ==
  [][HostRejects => Unregistered = {}]_vars

\* The host called handle_message and read returned nothing.
ReadFailed == pc = "idle" /\ inbuf = <<>> /\ pc' = "dead"

\* A request that defines a reply had its work done and the write of the
\* reply failed: the step leaves no reply written.
WriteFailed ==
  /\ last'.writes = <<>>
  /\ \/ Dispatched /\ inbuf[1].w \in {MT_ENABLE_SECOND_MONITOR, MT_GET_VIDEO_INFO}
     \/ pc = "preinited" /\ last.entry = "dispatch" /\ LiveIds' # LiveIds

\* C12: a read or a write of the socket that returns no positive value is
\* fatal.  After a failed read no handler has run and nothing has changed;
\* after a failed write of a reply handle_message does not return to the
\* host; and once stopped the core does nothing more (no retry, no
\* reconnection).
C12_SocketFailureFatal ==
  [][/\ ReadFailed =>
          /\ last'.handler = "none" /\ last'.status = "fatal"
          /\ last'.writes = <<>> /\ last'.events = <<>>
          /\ UNCHANGED <<heap, devices, pinfo, current_type, next_input_id,
                         options, inbuf, second_monitor>>
     /\ WriteFailed => (pc' = "dead" /\ last'.status = "fatal")
     /\ pc = "dead" => UNCHANGED vars]_vars

\* The core stopped on the failed write of the reply to an
\* enable-second-monitor request it had carried out.
C12_Witness ==
  /\ pc = "dead" /\ last.status = "fatal"
  /\ last.handler = "enable_second_monitor" /\ last.writes = <<>>
  /\ second_monitor = 1

\* A complete key message that names a live keyboard is handled.
KeyStep ==
  /\ Dispatched
  /\ inbuf[1].w \in {MT_KEY_PRESS, MT_KEY_RELEASE} /\ Len(inbuf) = MessageWords
  /\ inbuf[2].w \in LiveIds
  /\ pinfo[InfoOf(inbuf[2].w)].name.prefix = "keyboard"

\* C13: a KeyPress(id, key) on a live keyboard posts exactly one key event
\* for that device, with scan code (key mod 256) + 8 and pressed polarity; a
\* KeyRelease(id, key) exactly one with the same scan code and released
\* polarity.  The sum is not reduced to a byte again, and the registry is
\* unchanged.
C13_KeyEventScanCode ==
  [][KeyStep =>
       /\ last'.events =
            << [ev |-> "key", dev |-> inbuf[2].w,
                code |-> (inbuf[3].w % 256) + 8,
                down |-> IF inbuf[1].w = MT_KEY_PRESS THEN 1 ELSE 0,
                mask |-> NoMask] >>
       /\ pc' = "idle" /\ last'.status = "returned"
       /\ UNCHANGED <<heap, devices, pinfo, next_input_id>>]_vars

\* A key release posted with scan code 263: key 255, whose sum with 8 is
\* above a byte.
C13_Witness ==
  /\ last.handler = "key_release" /\ last.status = "returned"
  /\ Len(last.events) = 1
  /\ last.events[1].code = 263 /\ last.events[1].down = 0

\* The id is that of a live mouse.
LiveMouse(i) == i \in LiveIds /\ pinfo[InfoOf(i)].name.prefix = "mouse"

\* The step is a call of input_mouse_scroll(i, dx, dy), of
\* input_mouse_move(i, dx, dy), on a live mouse.
ScrollStep(i, dx, dy) == pc = "idle" /\ LiveMouse(i) /\ ApiMouseScroll(i, dx, dy)
MoveStep(i, dx, dy) == pc = "idle" /\ LiveMouse(i) /\ ApiMouseMove(i, dx, dy)

\* v = x * 120, stated without the product.
Is120Times(v, x) == v % 120 = 0 /\ v \div 120 = x

\* C14: a MouseScroll(id, dx, dy) on a live mouse posts exactly one motion
\* event for that device; its mask has axis 2 set, with value dx * 120,
\* exactly when dx is not zero, axis 3 set, with value dy * 120, exactly when
\* dy is not zero, and nothing on axes 0 and 1, whatever was posted for the
\* device before.
C14_ScrollEvent ==
  [][\A i \in Named, dx \in ScrollDeltas, dy \in ScrollDeltas :
       ScrollStep(i, dx, dy) =>
         /\ pc' = "idle"
         /\ Len(last'.events) = 1
         /\ LET e == last'.events[1]
            IN /\ e.ev = "motion" /\ e.dev = i
               /\ e.mask.bits = {a \in {2} : dx # 0} \cup {a \in {3} : dy # 0}
               /\ dx # 0 => Is120Times(e.mask.vals[2], dx)
               /\ dy # 0 => Is120Times(e.mask.vals[3], dy)
               /\ e.mask.vals[0] = 0 /\ e.mask.vals[1] = 0
               /\ ~e.mask.has_unaccelerated]_vars

\* C15: a MouseMove(id, dx, dy) on a live mouse posts exactly one motion
\* event for that device; its mask has axes 0 and 1 set, zero deltas
\* included, with values and unaccelerated values dx and dy, and nothing on
\* axes 2 and 3, whatever was posted for the device before.
C15_MoveEvent ==
  [][\A i \in Named, dx \in MoveDeltas, dy \in MoveDeltas :
       MoveStep(i, dx, dy) =>
         /\ pc' = "idle"
         /\ last'.events =
              << [ev |-> "motion", dev |-> i, code |-> 0, down |-> 0,
                  mask |-> [alloc |-> TRUE, bits |-> {0, 1},
                            vals |-> [a \in Axes |->
                                        IF a = 0 THEN dx ELSE IF a = 1 THEN dy ELSE 0],
                            has_unaccelerated |-> TRUE,
                            unaccel |-> [a \in Axes |->
                                           IF a = 0 THEN dx ELSE IF a = 1 THEN dy ELSE 0]]] >>
         /\ heap'[pinfo[InfoOf(i)].private].mask = last'.events[1].mask
         /\ UNCHANGED <<devices, pinfo>>]_vars

\* A move by (0, 7) was posted for a mouse whose previous event was a
\* scroll: the device's mask holds the move alone.
C15_Witness ==
  /\ last.handler = "mouse_move" /\ last.status = "returned"
  /\ Len(last.events) = 1
  /\ last.events[1].mask.bits = {0, 1}
  /\ last.events[1].mask.vals[0] = 0 /\ last.events[1].mask.vals[1] = 7
  /\ \E a \in Addr : heap[a].used /\ heap[a].mask.alloc /\ heap[a].mask.bits = {3}

\* C16: the GetVideoInfo reply is the reply tag followed by second_crtc,
\* first_output, second_output, small_mode_id, large_mode_id, so that the
\* peer, decoding by that layout, finds in each field the value the display
\* collaborator reported for it.
C16_VideoInfoRoundTrip ==
  (last.handler = "get_video_info" /\ last.status = "returned") =>
     /\ Len(last.writes) = 1
     /\ Len(last.writes[1]) = 6
     /\ last.writes[1][1] = MT_GET_VIDEO_INFO_REPLY
     /\ DecodeGetVideoInfoReply(last.writes[1]) = video_get_info

\* A GetVideoInfo request is handled.
VideoInfoStep == Dispatched /\ inbuf[1].w = MT_GET_VIDEO_INFO

\* C17: handling GetVideoInfo changes no state: the registry, the device
\* records, the name counter and the state of the second output are after
\* the request what they were before it, whether the second output had been
\* enabled or not; the reply carries the values the collaborator reports.
C17_VideoInfoReadOnly ==
  [][VideoInfoStep =>
       /\ UNCHANGED <<heap, devices, pinfo, current_type, next_input_id,
                      options, memerr, second_monitor>>
       /\ last'.events = <<>>
       /\ last'.status = "returned" =>
            last'.writes =
              << <<MT_GET_VIDEO_INFO_REPLY, video_get_info.second_crtc,
                   video_get_info.second_output, video_get_info.first_output,
                   video_get_info.large_mode_id, video_get_info.small_mode_id>> >>]_vars

\* GetVideoInfo was answered with the second output enabled and a keyboard
\* registered.
C17_Witness ==
  /\ last.handler = "get_video_info" /\ last.status = "returned"
  /\ Len(last.writes) = 1
  /\ second_monitor = 1
  /\ devices # NULL

\* The records of the list that stand for the host device with id i.
RecordsOf(i) ==
  {a \in Range(Registry(heap, devices)) :
     heap[a].device # NULL /\ DevOf(heap, pinfo, a) = i}

\* C18: in every reachable state, those between the host's PreInit callback
\* and the return of NewInputDeviceRequest included, every live device id
\* has exactly one record in the registry, and every record of the registry
\* has a host device that exists and has its id.
C18_RecordsHaveHostDevices ==
  /\ \A i \in LiveIds : Cardinality(RecordsOf(i)) = 1
  /\ \A a \in Range(Registry(heap, devices)) :
       /\ heap[a].used
       /\ heap[a].device \in Info
       /\ pinfo[heap[a].device].used
       /\ pinfo[heap[a].device].dev \in Ids

\* The kind a create request asks for, by the prefix input_new_keyboard and
\* input_new_mouse give the name of the device; 0 for a name that is not
\* theirs.
RequestedKind(prefix) ==
  IF prefix = "keyboard" THEN TyKeyboard
  ELSE IF prefix = "mouse" THEN TyMouse
  ELSE 0

\* C19: every record of the registry was made for a create request of the
\* control plane and has the kind that request asked for; while a creation
\* is in progress current_type holds its kind.  No record has a kind that is
\* stale, unset or another request's, a PreInit the host calls on its own
\* included.
C19_KindIsRequestedKind ==
  /\ \A a \in Range(Registry(heap, devices)) :
       /\ heap[a].type \in {TyKeyboard, TyMouse}
       /\ heap[a].type = RequestedKind(pinfo[heap[a].device].name.prefix)
  /\ pc \in {"request", "preinited"} =>
       current_type = RequestedKind(options.prefix)

\* The number input_new printed into the name of the device of record a:
\* the count of creates up to and including the one that made it.
CreatedAt(a) == pinfo[heap[a].device].name.n

\* The registry between two operations: a list without repetition, of
\* allocated records, one for each live device and no other, the earlier
\* created before the later, each with the back-link to the list head (the
\* first) or to the next field of its predecessor.
ListWellFormed ==
  LET reg == Registry(heap, devices)
  IN /\ Len(reg) <= MaxDevices
     /\ Cardinality(Range(reg)) = Len(reg)
     /\ \A a \in Range(reg) :
          /\ heap[a].used
          /\ heap[a].device \in Info
          /\ Live(heap[a].device)
          /\ pinfo[heap[a].device].private = a
     /\ \A p \in Info : Live(p) => pinfo[p].private \in Range(reg)
     /\ \A k \in 1..Len(reg) :
          /\ heap[reg[k]].prev_next = (IF k = 1 THEN 0 ELSE reg[k - 1])
          /\ Deref(heap, devices, heap[reg[k]].prev_next) = reg[k]
     /\ \A j, k \in 1..Len(reg) : j < k => CreatedAt(reg[j]) < CreatedAt(reg[k])

\* A removal takes one record out and leaves the others in the order they
\* had.
OrderKept ==
  LET reg == Registry(heap, devices)
      after == Registry(heap', devices')
  IN /\ Len(after) = Len(reg) - 1
     /\ after = SelectSeq(reg, LAMBDA x : x \in Range(after))

\* C20: after any sequence of creates and removals the registry is a
\* well-formed list of exactly the live records, each once, in creation
\* order, every back-link naming the link that points at its record; and a
\* removal leaves the relative order of the other records unchanged.
C20_RegistryIsOrderedList ==
  /\ [](pc = "idle" => ListWellFormed)
  /\ [][(PeerRemoval \/ HostRemoval) => OrderKept]_vars

\* The middle one of three records was removed: the first and the third
\* create are left, in that order.
C20_Witness ==
  LET reg == Registry(heap, devices)
  IN /\ pc = "idle"
     /\ last.handler \in {"remove_device", "un_init"} /\ last.status = "returned"
     /\ Len(reg) = 2
     /\ CreatedAt(reg[2]) = CreatedAt(reg[1]) + 2
     /\ heap[reg[2]].prev_next = reg[1]

====
